---- MODULE Spec2Model ----
(***************************************************************************)
(* Ukkonen's on-line suffix tree construction, as implemented three times  *)
(* in this repository:                                                     *)
(*   new_ukkonen.py   (GraphWithEdgeContent / ImplicitState, "new")        *)
(*   short_ukkonen.py (one function, "short")                              *)
(*   ukkonen.py       (the paper's update/canonize/test_and_split, "paper")*)
(* A behaviour builds the tree of one word with one of the builders.       *)
(* Word indices are 0-based as in the source: At(w, i) is word[i].         *)
(* A dictionary is a function whose domain is its key set; the key         *)
(* "suffix" lives in the same dictionary as the symbol keys, as in the     *)
(* source.  A lookup that fails (KeyError, IndexError) ends the call: the  *)
(* builder goes to pc = "raised" and takes no further step.                *)
(***************************************************************************)
EXTENDS Integers, Sequences, FiniteSets, TLC

\* ---------------------------------------------------------------- bounds
MaxLen == 6

Alphabet == {"a", "b", "c"}
BoundedWords == UNION {[1..n -> Alphabet] : n \in 0..MaxLen}
\* the strings the docstring of short_ukkonen.py proposes as tests
DocWords ==
  { <<"a","b","c","a","b","x","a","b","c","d">>,
    <<"a","b","c","a","c","d","a","e">>,
    <<"a","a","b","a","a","b","b","c">>,
    <<"a","b","c","a","b","d","a","b","c">> }
\* longer inputs on which a split is followed by leaf insertions at
\* explicit nodes and the resulting links are followed in later phases
LongWords ==
  { <<"a","a","b","a","a","c">>,
    <<"a","a","b","a","a","c","a","a","a">>,
    <<"a","a","b","a","a","c","a","a","b","b">>,
    <<"a","a","c","c","a","c","d","b","a","c","b","a","b","a","c","a">>,
    <<"a","a","b","b","a","b","c","a","b","c","a","c","a","b","c","a","c","c">> }
\* words with a symbol that is not a lower-case letter
UpperWords ==
  { w \in UNION {[1..n -> {"a", "A"}] : n \in 1..4} :
      \E i \in DOMAIN w : w[i] = "A" }
Words == BoundedWords \cup DocWords \cup LongWords \cup UpperWords

VARIABLES
  word,     \* the input of ukkonen(word)
  builder,  \* which of the three ukkonen functions was called
  new,      \* new_ukkonen.py: the ImplicitState s and the locals of ukkonen
  short,    \* short_ukkonen.py: the locals of ukkonen
  paper     \* ukkonen.py: the locals of ukkonen / update / canonize

vars == <<word, builder, new, short, paper>>

\* ------------------------------------------------------------- utilities
\* word[i]: a negative index counts from the end, as in Python
At(w, i) == IF i < 0 THEN w[Len(w) + i + 1] ELSE w[i + 1]
\* word[i] raises IndexError
word_raises(w, i) == i >= Len(w) \/ i < 0 - Len(w)
\* v is an index of the list of dictionaries (a leaf marker is not)
is_vertex(tree, v) == v >= 0 /\ v < Len(tree)
\* tree[v][word[i]] raises: no such index, vertex or key
edge_raises(w, tree, v, i) ==
  \/ word_raises(w, i)
  \/ ~ is_vertex(tree, v)
  \/ At(w, i) \notin DOMAIN tree[v + 1]
EmptyDict == [x \in {} |-> 0]
Put(d, key, val) == [x \in (DOMAIN d) \cup {key} |-> IF x = key THEN val ELSE d[x]]
UNBOUND == -2

\* ======================================================= new_ukkonen.py
LEAF == -1
root == 0

num_vertices(tree) == Len(tree)
add_vertex(tree) == Append(tree, EmptyDict)
has_edge(tree, vertex, edge_label) == edge_label \in DOMAIN tree[vertex + 1]
get_edge_content(tree, vertex, edge_label) == tree[vertex + 1][edge_label]
update_edge_content(tree, vertex, edge_label, edge_content) ==
  [tree EXCEPT ![vertex + 1] = Put(@, edge_label, edge_content)]

ImplicitState(w) ==
  [ tree |-> <<EmptyDict>>, label |-> 0, pos |-> 0, len |-> 0,
    leafs_length |-> Len(w),
    p |-> 0, explicit_state |-> UNBOUND, pc |-> "phase", ret |-> "phase" ]

is_explicit(s) == s.len = 0
is_root(s) == s.label = root /\ s.pos = 0 /\ s.len = 0

has_transition(w, s, position) ==
  IF is_explicit(s)
  THEN has_edge(s.tree, s.label, At(w, position))
  ELSE LET k == get_edge_content(s.tree, s.label, At(w, s.pos))[1]
       IN  At(w, position) = At(w, k + s.len)

move(s, label, pos, length) ==
  [s EXCEPT !.label = label, !.pos = pos, !.len = length]

\* mutant: make_canonical without its last test (l == self.len)
make_canonical_exit_no_last_test(w, s) == s

\* make_canonical, one hop of its while loop at a time
make_canonical_hops(w, s) ==
  /\ ~ is_explicit(s)
  /\ get_edge_content(s.tree, s.label, At(w, s.pos))[2] < s.len
make_canonical_hop(w, s) ==
  LET e == get_edge_content(s.tree, s.label, At(w, s.pos))
  IN  move(s, e[3], s.pos + e[2], s.len - e[2])
\* make_canonical after its loop
make_canonical_exit(w, s) ==
  IF is_explicit(s) THEN s
  ELSE LET e == get_edge_content(s.tree, s.label, At(w, s.pos))
       IN  IF e[2] = s.len THEN move(s, e[3], 0, 0) ELSE s

\* mutant: move_to_suffix that keeps pos when it shortens at the root
move_to_suffix_keeps_pos(w, s) ==
  IF s.label = root
  THEN [s EXCEPT !.len = @ - 1, !.pos = IF s.len - 1 = 0 THEN 0 ELSE @]
  ELSE [s EXCEPT !.label = get_edge_content(s.tree, s.label, "suffix")]

\* move_to_suffix up to its call of make_canonical
move_to_suffix(w, s) ==
  IF s.label = root
  THEN [s EXCEPT !.len = @ - 1, !.pos = IF s.len - 1 = 0 THEN 0 ELSE @ + 1]
  ELSE [s EXCEPT !.label = get_edge_content(s.tree, s.label, "suffix")]

\* mutant: add_explicit that does not shorten the edge it splits
add_explicit_keeps_length(w, s) ==
  IF is_explicit(s) THEN [tree |-> s.tree, state |-> s.label]
  ELSE LET e == get_edge_content(s.tree, s.label, At(w, s.pos))
           p == e[1]
           l == e[2]
           child == e[3]
           t1 == add_vertex(s.tree)
           new_explicit_state == num_vertices(t1) - 1
           t2 == update_edge_content(t1, s.label, At(w, p),
                                     <<p, l, new_explicit_state>>)
           t3 == update_edge_content(t2, new_explicit_state, At(w, p + s.len),
                                     <<p + s.len, l - s.len, child>>)
       IN  [tree |-> t3, state |-> new_explicit_state]

\* add_explicit returns the vertex and leaves the tree changed
add_explicit(w, s) ==
  IF is_explicit(s) THEN [tree |-> s.tree, state |-> s.label]
  ELSE LET e == get_edge_content(s.tree, s.label, At(w, s.pos))
           p == e[1]
           l == e[2]
           child == e[3]
           t1 == add_vertex(s.tree)
           new_explicit_state == num_vertices(t1) - 1
           t2 == update_edge_content(t1, s.label, At(w, p),
                                     <<p, s.len, new_explicit_state>>)
           t3 == update_edge_content(t2, new_explicit_state, At(w, p + s.len),
                                     <<p + s.len, l - s.len, child>>)
       IN  [tree |-> t3, state |-> new_explicit_state]

\* mutant: add_leaf whose leaf edge stops one symbol before the end of word
add_leaf_one_short(w, s, position) ==
  LET x == add_explicit(w, s)
  IN  [tree |-> update_edge_content(x.tree, x.state, At(w, position),
                   <<position, s.leafs_length - position - 1, LEAF>>),
       state |-> x.state]

\* add_leaf returns the vertex and leaves the tree changed
add_leaf(w, s, position) ==
  LET x == add_explicit(w, s)
  IN  [tree |-> update_edge_content(x.tree, x.state, At(w, position),
                   <<position, s.leafs_length - position, LEAF>>),
       state |-> x.state]

\* mutant: elongate that starts the new edge at self.pos
elongate_at_pos(s, position) ==
  IF is_explicit(s) THEN move(s, s.label, s.pos, 1)
  ELSE [s EXCEPT !.len = @ + 1]

\* elongate up to its call of make_canonical
elongate(s, position) ==
  IF is_explicit(s) THEN move(s, s.label, position, 1)
  ELSE [s EXCEPT !.len = @ + 1]

\* has_transition raises (lines 172-175)
has_transition_raises(w, s, position) ==
  IF is_explicit(s)
  THEN word_raises(w, position) \/ ~ is_vertex(s.tree, s.label)
  ELSE \/ edge_raises(w, s.tree, s.label, s.pos)
       \/ word_raises(w, position)
       \/ word_raises(w, get_edge_content(s.tree, s.label, At(w, s.pos))[1]
                           + s.len)
\* make_canonical raises at a read of the edge of the active point
make_canonical_raises(w, s) ==
  (~ is_explicit(s)) /\ edge_raises(w, s.tree, s.label, s.pos)
\* move_to_suffix raises at its read of the suffix link (line 200)
move_to_suffix_raises(w, s) ==
  /\ s.label # root
  /\ \/ ~ is_vertex(s.tree, s.label)
     \/ "suffix" \notin DOMAIN s.tree[s.label + 1]
\* add_explicit raises (lines 212-215)
add_explicit_raises(w, s) ==
  /\ ~ is_explicit(s)
  /\ \/ edge_raises(w, s.tree, s.label, s.pos)
     \/ LET p == get_edge_content(s.tree, s.label, At(w, s.pos))[1]
        IN  word_raises(w, p) \/ word_raises(w, p + s.len)
\* add_leaf raises (lines 229-230)
add_leaf_raises(w, s, position) ==
  \/ add_explicit_raises(w, s)
  \/ is_explicit(s) /\ ~ is_vertex(s.tree, s.label)
  \/ word_raises(w, position)
\* the next step of ukkonen() raises an exception
N_raises(w, s) ==
  CASE s.pc = "phase" ->
         /\ s.p < Len(w)
         /\ \/ has_transition_raises(w, s, s.p)
            \/ (~ has_transition(w, s, s.p)) /\ add_leaf_raises(w, s, s.p)
    [] s.pc = "suffix" -> move_to_suffix_raises(w, s)
    [] s.pc = "canon" -> make_canonical_raises(w, s)
    [] s.pc = "while" ->
         \/ has_transition_raises(w, s, s.p)
         \/ (~ has_transition(w, s, s.p)) /\ add_leaf_raises(w, s, s.p)
    [] OTHER -> FALSE

\* the branch of ukkonen() that runs next
N_at(w, s) ==
  IF N_raises(w, s) THEN "raise" ELSE
  CASE s.pc = "phase" ->
         IF s.p >= Len(w) THEN "return"
         ELSE IF has_transition(w, s, s.p) THEN "elongate"
         ELSE IF is_root(s) THEN "root_leaf"
         ELSE "first_leaf"
    [] s.pc = "suffix" -> "move_to_suffix"
    [] s.pc = "canon" ->
         IF make_canonical_hops(w, s) THEN "hop" ELSE "canonical"
    [] s.pc = "while" ->
         IF (~ has_transition(w, s, s.p)) /\ (~ is_root(s)) THEN "next_leaf"
         ELSE IF has_transition(w, s, s.p) THEN "end_point"
         ELSE "last_leaf"
    [] OTHER -> "done"

\* its effect
N_Step(w, s) ==
  LET b == N_at(w, s) IN
  CASE b = "return" -> [s EXCEPT !.pc = "done"]
    [] b = "raise" -> [s EXCEPT !.pc = "raised"]
    [] b = "elongate" ->
         [elongate(s, s.p) EXCEPT !.pc = "canon", !.ret = "phase"]
    [] b = "root_leaf" ->
         [s EXCEPT !.tree = add_leaf(w, s, s.p).tree, !.p = @ + 1]
    [] b = "first_leaf" ->
         LET x == add_leaf(w, s, s.p)
         IN  [s EXCEPT !.tree = x.tree, !.explicit_state = x.state,
                       !.pc = "suffix"]
    [] b = "move_to_suffix" ->
         [move_to_suffix(w, s) EXCEPT !.pc = "canon", !.ret = "while"]
    [] b = "hop" -> make_canonical_hop(w, s)
    [] b = "canonical" ->
         LET c == make_canonical_exit(w, s)
         IN  IF s.ret = "phase"
             THEN [c EXCEPT !.p = @ + 1, !.pc = "phase"]
             ELSE [c EXCEPT !.pc = "while"]
    [] b = "next_leaf" ->
         LET x == add_leaf(w, s, s.p)
         IN  [s EXCEPT !.tree = update_edge_content(x.tree, s.explicit_state,
                                                    "suffix", x.state),
                       !.explicit_state = x.state,
                       !.pc = "suffix"]
    [] b = "end_point" ->
         LET s1 == [s EXCEPT !.tree = update_edge_content(s.tree,
                                        s.explicit_state, "suffix", s.label)]
         IN  [elongate(s1, s.p) EXCEPT !.pc = "canon", !.ret = "phase"]
    [] b = "last_leaf" ->
         LET s1 == [s EXCEPT !.tree = update_edge_content(s.tree,
                                        s.explicit_state, "suffix", root)]
         IN  [s1 EXCEPT !.tree = add_leaf(w, s1, s.p).tree,
                        !.p = @ + 1, !.pc = "phase"]
    [] OTHER -> s

\* lines 251-252: the active point has the transition
N_Elongate ==
  /\ builder = "new"
  /\ N_at(word, new) = "elongate"
  /\ new' = N_Step(word, new)
  /\ UNCHANGED <<word, builder, short, paper>>

\* lines 253-254: a leaf at the root
N_RootLeaf ==
  /\ builder = "new"
  /\ N_at(word, new) = "root_leaf"
  /\ new' = N_Step(word, new)
  /\ UNCHANGED <<word, builder, short, paper>>

\* line 256: the first leaf of a chain
N_FirstLeaf ==
  /\ builder = "new"
  /\ N_at(word, new) = "first_leaf"
  /\ new' = N_Step(word, new)
  /\ UNCHANGED <<word, builder, short, paper>>

\* lines 257, 262: move_to_suffix before make_canonical
N_MoveToSuffix ==
  /\ builder = "new"
  /\ N_at(word, new) = "move_to_suffix"
  /\ new' = N_Step(word, new)
  /\ UNCHANGED <<word, builder, short, paper>>

\* lines 185-187: one iteration of make_canonical's loop
N_CanonicalHop ==
  /\ builder = "new"
  /\ N_at(word, new) = "hop"
  /\ new' = N_Step(word, new)
  /\ UNCHANGED <<word, builder, short, paper>>

\* lines 188-189: make_canonical returns
N_Canonical ==
  /\ builder = "new"
  /\ N_at(word, new) = "canonical"
  /\ new' = N_Step(word, new)
  /\ UNCHANGED <<word, builder, short, paper>>

\* lines 258-261: the body of the while loop
N_NextLeaf ==
  /\ builder = "new"
  /\ N_at(word, new) = "next_leaf"
  /\ new' = N_Step(word, new)
  /\ UNCHANGED <<word, builder, short, paper>>

\* lines 263-265: the chain ends where the transition exists
N_EndPoint ==
  /\ builder = "new"
  /\ N_at(word, new) = "end_point"
  /\ new' = N_Step(word, new)
  /\ UNCHANGED <<word, builder, short, paper>>

\* lines 266-268: the chain ends at the root
N_LastLeaf ==
  /\ builder = "new"
  /\ N_at(word, new) = "last_leaf"
  /\ new' = N_Step(word, new)
  /\ UNCHANGED <<word, builder, short, paper>>

\* line 269
N_Return ==
  /\ builder = "new"
  /\ N_at(word, new) = "return"
  /\ new' = N_Step(word, new)
  /\ UNCHANGED <<word, builder, short, paper>>

N_Next ==
  \/ N_Elongate \/ N_RootLeaf \/ N_FirstLeaf \/ N_MoveToSuffix
  \/ N_CanonicalHop \/ N_Canonical \/ N_NextLeaf \/ N_EndPoint
  \/ N_LastLeaf \/ N_Return

\* ===================================================== short_ukkonen.py
ROOT == 0
SUFFIX == "suffix"
S_LEAF == -1
INFINITY == 1000000
\* math.inf - n is math.inf
Minus(a, b) == IF a = INFINITY THEN INFINITY ELSE a - b

\* line 98
S_Init ==
  [ tree |-> <<EmptyDict>>, node |-> ROOT, position |-> 0, length |-> 0,
    length_node_child |-> 0, child |-> 0,
    p |-> 0, letter |-> "", previous_node |-> UNBOUND, pc |-> "phase" ]

\* line 103, the test of the first loop
S_first_loop(w, t) ==
  t.length > 0 /\ t.letter # At(w, t.position + t.length)
\* line 130, the test of the second loop
S_second_loop(w, t) ==
  t.node # ROOT /\ t.letter \notin DOMAIN t.tree[t.node + 1] /\ t.length = 0

\* lines 105-113: the tree with the new node and its suffix link
S_split_tree(w, t) ==
  LET e == t.tree[t.node + 1][At(w, t.position)]
      length_node_child == e[2]
      child == e[3]
      new_node == Len(t.tree)
      d1 == Put(EmptyDict, t.letter, <<t.p, INFINITY, S_LEAF>>)
      d2 == Put(d1, At(w, t.position + t.length),
                <<t.position + t.length,
                  Minus(length_node_child, t.length), child>>)
      t1 == Append(t.tree, d2)
      t2 == [t1 EXCEPT ![t.node + 1] =
               Put(@, At(w, t.position), <<t.position, t.length, new_node>>)]
  IN  [t2 EXCEPT ![t.previous_node + 1] = Put(@, SUFFIX, new_node)]

\* lines 115-119: the move to the suffix, not yet canonical
S_split_move(w, t) ==
  IF t.node = ROOT
  THEN [node |-> t.node, position |-> t.position + 1, length |-> t.length - 1]
  ELSE [node |-> S_split_tree(w, t)[t.node + 1][SUFFIX],
        position |-> t.position, length |-> t.length]

\* lines 105-121: a new node, its suffix link, the move to the suffix and the
\* first read of the canonization
S_split(w, t) ==
  LET t3 == S_split_tree(w, t)
      m == S_split_move(w, t)
      e2 == t3[m.node + 1][At(w, m.position)]
  IN  [t EXCEPT !.tree = t3, !.previous_node = Len(t.tree),
                !.node = m.node, !.position = m.position, !.length = m.length,
                !.length_node_child = e2[2], !.child = e2[3],
                !.pc = "canon"]

\* lines 105-121 raise
S_split_raises(w, t) ==
  \/ edge_raises(w, t.tree, t.node, t.position)
  \/ ~ is_vertex(t.tree, t.previous_node)
  \/ t.node # ROOT /\ SUFFIX \notin DOMAIN S_split_tree(w, t)[t.node + 1]
  \/ LET m == S_split_move(w, t)
     IN  edge_raises(w, S_split_tree(w, t), m.node, m.position)

\* lines 122-125: one iteration of the canonization loop
S_hop(w, t) ==
  LET node == t.child
      position == t.position + t.length_node_child
      length == t.length - t.length_node_child
      e == t.tree[node + 1][At(w, position)]
  IN  [t EXCEPT !.node = node, !.position = position, !.length = length,
                !.length_node_child = e[2], !.child = e[3]]

\* lines 127-128
S_canonical(w, t) ==
  [t EXCEPT !.position = IF t.length > 0
                         THEN t.tree[t.node + 1][At(w, t.position)][1]
                         ELSE @,
            !.pc = "loop1"]

\* lines 132-136: a leaf at an explicit node, then its suffix link is followed
S_explicit_leaf(w, t) ==
  LET t1 == [t.tree EXCEPT ![t.node + 1] =
               Put(@, t.letter, <<t.p, INFINITY, S_LEAF>>)]
      t2 == [t1 EXCEPT ![t.previous_node + 1] = Put(@, SUFFIX, t.node)]
  IN  [t EXCEPT !.tree = t2, !.node = t2[t.node + 1][SUFFIX], !.pc = "loop2"]

\* lines 140-144
S_root_leaf(w, t) ==
  LET t1 == [t.tree EXCEPT ![ROOT + 1] =
               Put(@, t.letter, <<t.p, INFINITY, S_LEAF>>)]
      t2 == [t1 EXCEPT ![t.previous_node + 1] = Put(@, SUFFIX, ROOT)]
  IN  [t EXCEPT !.tree = t2, !.length = 0, !.p = @ + 1, !.pc = "phase"]

\* lines 148-160
S_advance(w, t) ==
  LET t1 == IF t.length = 0
            THEN [t.tree EXCEPT ![t.previous_node + 1] = Put(@, SUFFIX, t.node)]
            ELSE t.tree
      e == IF t.length = 0
           THEN t1[t.node + 1][t.letter]
           ELSE t1[t.node + 1][At(w, t.position)]
      length == t.length + 1
  IN  [t EXCEPT !.tree = t1, !.position = e[1],
                !.length_node_child = e[2], !.child = e[3],
                !.node = IF e[2] = length THEN e[3] ELSE @,
                !.length = IF e[2] = length THEN 0 ELSE length,
                !.p = @ + 1, !.pc = "phase"]

\* mutant: the return without the cleaning of lines 162-164
S_return_no_cleaning(w, t) == [t EXCEPT !.pc = "done"]

\* lines 162-165
S_return(w, t) ==
  [t EXCEPT !.tree = [@ EXCEPT ![ROOT + 1] = Put(@, SUFFIX, ROOT)],
            !.position = IF t.length = 0 THEN 0 ELSE @,
            !.pc = "done"]

\* the next step of ukkonen() raises an exception
S_raises(w, t) ==
  CASE t.pc = "canon" ->
         IF t.length_node_child <= t.length
         THEN edge_raises(w, t.tree, t.child, t.position + t.length_node_child)
         ELSE t.length > 0 /\ edge_raises(w, t.tree, t.node, t.position)
    [] t.pc \in {"loop1", "loop2"} ->
         IF t.pc = "loop1" /\ t.length > 0
              /\ word_raises(w, t.position + t.length)
         THEN TRUE
         ELSE IF t.pc = "loop1" /\ S_first_loop(w, t)
         THEN S_split_raises(w, t)
         ELSE IF ~ is_vertex(t.tree, t.node)
         THEN TRUE
         ELSE IF S_second_loop(w, t)
         THEN /\ t.previous_node # t.node
              /\ SUFFIX \notin DOMAIN t.tree[t.node + 1]
         ELSE IF t.node = ROOT /\ t.letter \notin DOMAIN t.tree[ROOT + 1]
         THEN FALSE
         ELSE IF t.length = 0
         THEN t.letter \notin DOMAIN t.tree[t.node + 1]
         ELSE edge_raises(w, t.tree, t.node, t.position)
    [] OTHER -> FALSE

\* the branch of ukkonen() that runs next
S_at(w, t) ==
  IF S_raises(w, t) THEN "raise" ELSE
  CASE t.pc = "phase" -> IF t.p >= Len(w) THEN "return" ELSE "phase"
    [] t.pc = "canon" ->
         IF t.length_node_child <= t.length THEN "hop" ELSE "canonical"
    [] t.pc \in {"loop1", "loop2"} ->
         IF t.pc = "loop1" /\ S_first_loop(w, t) THEN "split"
         ELSE IF S_second_loop(w, t) THEN "explicit_leaf"
         ELSE IF t.node = ROOT /\ t.letter \notin DOMAIN t.tree[ROOT + 1]
         THEN "root_leaf"
         ELSE "advance"
    [] OTHER -> "done"

S_Step(w, t) ==
  LET b == S_at(w, t) IN
  CASE b = "phase" ->
         [t EXCEPT !.letter = At(w, t.p), !.previous_node = ROOT,
                   !.pc = "loop1"]
    [] b = "split" -> S_split(w, t)
    [] b = "hop" -> S_hop(w, t)
    [] b = "canonical" -> S_canonical(w, t)
    [] b = "explicit_leaf" -> S_explicit_leaf(w, t)
    [] b = "root_leaf" -> S_root_leaf(w, t)
    [] b = "advance" -> S_advance(w, t)
    [] b = "return" -> S_return(w, t)
    [] b = "raise" -> [t EXCEPT !.pc = "raised"]
    [] OTHER -> t

\* lines 99-101: a phase begins
S_Phase ==
  /\ builder = "short"
  /\ S_at(word, short) = "phase"
  /\ short' = S_Step(word, short)
  /\ UNCHANGED <<word, builder, new, paper>>

\* lines 103-120: the body of the first loop up to the canonization loop
S_Split ==
  /\ builder = "short"
  /\ S_at(word, short) = "split"
  /\ short' = S_Step(word, short)
  /\ UNCHANGED <<word, builder, new, paper>>

\* lines 121-125: one iteration of the canonization loop
S_CanonicalHop ==
  /\ builder = "short"
  /\ S_at(word, short) = "hop"
  /\ short' = S_Step(word, short)
  /\ UNCHANGED <<word, builder, new, paper>>

\* lines 126-128: the canonization ends
S_Canonical ==
  /\ builder = "short"
  /\ S_at(word, short) = "canonical"
  /\ short' = S_Step(word, short)
  /\ UNCHANGED <<word, builder, new, paper>>

\* lines 130-136: the body of the second loop
S_ExplicitLeaf ==
  /\ builder = "short"
  /\ S_at(word, short) = "explicit_leaf"
  /\ short' = S_Step(word, short)
  /\ UNCHANGED <<word, builder, new, paper>>

\* lines 138-144
S_RootLeaf ==
  /\ builder = "short"
  /\ S_at(word, short) = "root_leaf"
  /\ short' = S_Step(word, short)
  /\ UNCHANGED <<word, builder, new, paper>>

\* lines 146-160
S_Advance ==
  /\ builder = "short"
  /\ S_at(word, short) = "advance"
  /\ short' = S_Step(word, short)
  /\ UNCHANGED <<word, builder, new, paper>>

\* lines 162-165
S_Return ==
  /\ builder = "short"
  /\ S_at(word, short) = "return"
  /\ short' = S_Step(word, short)
  /\ UNCHANGED <<word, builder, new, paper>>

S_Next ==
  \/ S_Phase
  \/ S_Split
  \/ S_CanonicalHop
  \/ S_Canonical
  \/ S_ExplicitLeaf
  \/ S_RootLeaf
  \/ S_Advance
  \/ S_Return

\* =========================================================== ukkonen.py
BOTTOM == 0
P_ROOT == 1
ascii_lowercase ==
  { "a", "b", "c", "d", "e", "f", "g", "h", "i", "j", "k", "l", "m",
    "n", "o", "p", "q", "r", "s", "t", "u", "v", "w", "x", "y", "z" }

create_new_state(tree) == Append(tree, EmptyDict)

\* line 184-186, and the locals of update and canonize not yet assigned
P_Init ==
  [ tree |-> << [letter \in ascii_lowercase |-> <<0, 0, 1>>],
                Put(EmptyDict, "suffix", 0) >>,
    state |-> P_ROOT, k |-> 0, i |-> 0,
    oldr |-> UNBOUND, r |-> UNBOUND, is_end_point |-> FALSE,
    kk |-> UNBOUND, pp |-> UNBOUND, sstate |-> UNBOUND, p |-> UNBOUND,
    pc |-> "phase", ret |-> "phase" ]

\* mutant: test_and_split whose lower transition starts one symbol late
test_and_split_late_start(w, tree, state, k, p, letter) ==
  IF state = BOTTOM THEN [tree |-> tree, ret |-> <<TRUE, state>>]
  ELSE IF k <= p
  THEN LET e == tree[state + 1][At(w, k)]
           kk == e[1]
           pp == e[2]
           sstate == e[3]
       IN  IF letter = At(w, kk + p - k + 1)
           THEN [tree |-> tree, ret |-> <<TRUE, state>>]
           ELSE LET t1 == create_new_state(tree)
                    r_state == Len(t1) - 1
                    t2 == [t1 EXCEPT ![state + 1] =
                             Put(@, At(w, k), <<kk, kk + p - k, r_state>>)]
                    t3 == [t2 EXCEPT ![r_state + 1] =
                             Put(@, At(w, kk + p - k + 1),
                                 <<kk + p - k + 2, pp, sstate>>)]
                IN  [tree |-> t3, ret |-> <<FALSE, r_state>>]
  ELSE [tree |-> tree, ret |-> <<letter \in DOMAIN tree[state + 1], state>>]

\* test_and_split returns ret and leaves the tree changed
test_and_split(w, tree, state, k, p, letter) ==
  IF state = BOTTOM THEN [tree |-> tree, ret |-> <<TRUE, state>>]
  ELSE IF k <= p
  THEN LET e == tree[state + 1][At(w, k)]
           kk == e[1]
           pp == e[2]
           sstate == e[3]
       IN  IF letter = At(w, kk + p - k + 1)
           THEN [tree |-> tree, ret |-> <<TRUE, state>>]
           ELSE LET t1 == create_new_state(tree)
                    r_state == Len(t1) - 1
                    t2 == [t1 EXCEPT ![state + 1] =
                             Put(@, At(w, k), <<kk, kk + p - k, r_state>>)]
                    t3 == [t2 EXCEPT ![r_state + 1] =
                             Put(@, At(w, kk + p - k + 1),
                                 <<kk + p - k + 1, pp, sstate>>)]
                IN  [tree |-> t3, ret |-> <<FALSE, r_state>>]
  ELSE [tree |-> tree, ret |-> <<letter \in DOMAIN tree[state + 1], state>>]

\* what follows a return of canonize: line 169 in update, or the next phase
P_after_canonize(w, u) ==
  IF u.ret = "update"
  THEN LET x == test_and_split(w, u.tree, u.state, u.k, u.i - 1, At(w, u.i))
       IN  [u EXCEPT !.tree = x.tree, !.is_end_point = x.ret[1],
                     !.r = x.ret[2], !.pc = "update"]
  ELSE [u EXCEPT !.i = @ + 1, !.pc = "phase"]

\* canonize(word, tree, state, k, p) up to its loop (lines 118-126)
canonize(w, u, state, k, p, ret) ==
  LET u1 == [u EXCEPT !.state = state, !.k = k, !.p = p, !.ret = ret]
  IN  IF p < k THEN P_after_canonize(w, u1)
      ELSE LET e == u.tree[state + 1][At(w, k)]
           IN  [u1 EXCEPT !.kk = e[1], !.pp = e[2], !.sstate = e[3],
                          !.pc = "canon"]

\* lines 128-132: one iteration of the loop of canonize
canonize_hop(w, u) ==
  LET k == u.k + u.pp - u.kk + 1
      state == u.sstate
      u1 == [u EXCEPT !.k = k, !.state = state]
  IN  IF k <= u.p
      THEN LET e == u.tree[state + 1][At(w, k)]
           IN  [u1 EXCEPT !.kk = e[1], !.pp = e[2], !.sstate = e[3]]
      ELSE u1

\* lines 150-151
update_start(w, u) ==
  LET x == test_and_split(w, u.tree, u.state, u.k, u.i - 1, At(w, u.i))
  IN  [u EXCEPT !.oldr = P_ROOT, !.tree = x.tree,
                !.is_end_point = x.ret[1], !.r = x.ret[2], !.pc = "update"]

\* lines 162-168: the body of the loop of update up to the loop of canonize
update_tail_tree(w, u) ==
  LET t1 == create_new_state(u.tree)
      rr == Len(t1) - 1
      t2 == [t1 EXCEPT ![u.r + 1] = Put(@, At(w, u.i), <<u.i, Len(w) - 1, rr>>)]
  IN  IF u.oldr # P_ROOT
      THEN [t2 EXCEPT ![u.oldr + 1] = Put(@, "suffix", u.r)]
      ELSE t2
update_tail(w, u) ==
  LET t3 == update_tail_tree(w, u)
      u1 == [u EXCEPT !.tree = t3, !.oldr = u.r]
  IN  canonize(w, u1, t3[u.state + 1]["suffix"], u.k, u.i - 1, "update")

\* lines 171-174 and the call of canonize at line 189
update_end_tree(w, u) ==
  IF u.oldr # P_ROOT
  THEN [u.tree EXCEPT ![u.oldr + 1] = Put(@, "suffix", u.state)]
  ELSE u.tree
update_end(w, u) ==
  LET t1 == update_end_tree(w, u)
      u1 == [u EXCEPT !.tree = t1]
  IN  canonize(w, u1, u.state, u.k, u.i, "phase")

\* test_and_split raises (lines 78-79)
test_and_split_raises(w, tree, state, k, p) ==
  /\ state # BOTTOM
  /\ IF k <= p
     THEN \/ edge_raises(w, tree, state, k)
          \/ word_raises(w, tree[state + 1][At(w, k)][1] + p - k + 1)
     ELSE ~ is_vertex(tree, state)
\* canonize, up to its loop, and what follows its return raise
canonize_raises(w, tree, state, k, p, ret, i) ==
  IF p < k
  THEN ret = "update" /\ test_and_split_raises(w, tree, state, k, i - 1)
  ELSE edge_raises(w, tree, state, k)
\* the next step of ukkonen() raises an exception
P_raises(w, u) ==
  CASE u.pc = "phase" ->
         /\ u.i < Len(w)
         /\ test_and_split_raises(w, u.tree, u.state, u.k, u.i - 1)
    [] u.pc = "update" ->
         IF ~ u.is_end_point
         THEN \/ ~ is_vertex(u.tree, u.state)
              \/ "suffix" \notin DOMAIN update_tail_tree(w, u)[u.state + 1]
              \/ canonize_raises(w, update_tail_tree(w, u),
                                 update_tail_tree(w, u)[u.state + 1]["suffix"],
                                 u.k, u.i - 1, "update", u.i)
         ELSE canonize_raises(w, update_end_tree(w, u), u.state, u.k, u.i,
                              "phase", u.i)
    [] u.pc = "canon" ->
         IF u.pp - u.kk <= u.p - u.k
         THEN /\ u.k + u.pp - u.kk + 1 <= u.p
              /\ edge_raises(w, u.tree, u.sstate, u.k + u.pp - u.kk + 1)
         ELSE u.ret = "update"
              /\ test_and_split_raises(w, u.tree, u.state, u.k, u.i - 1)
    [] OTHER -> FALSE

\* the branch of ukkonen() that runs next
P_at(w, u) ==
  IF P_raises(w, u) THEN "raise" ELSE
  CASE u.pc = "phase" -> IF u.i >= Len(w) THEN "return" ELSE "phase"
    [] u.pc = "update" -> IF ~ u.is_end_point THEN "tail" ELSE "end_point"
    [] u.pc = "canon" ->
         IF u.pp - u.kk <= u.p - u.k THEN "hop" ELSE "canonical"
    [] OTHER -> "done"

P_Step(w, u) ==
  LET b == P_at(w, u) IN
  CASE b = "phase" -> update_start(w, u)
    [] b = "tail" -> update_tail(w, u)
    [] b = "end_point" -> update_end(w, u)
    [] b = "hop" -> canonize_hop(w, u)
    [] b = "canonical" -> P_after_canonize(w, u)
    [] b = "return" -> [u EXCEPT !.pc = "done"]
    [] b = "raise" -> [u EXCEPT !.pc = "raised"]
    [] OTHER -> u

\* lines 187-188, 150-151: a phase begins with test_and_split
P_Update ==
  /\ builder = "paper"
  /\ P_at(word, paper) = "phase"
  /\ paper' = P_Step(word, paper)
  /\ UNCHANGED <<word, builder, new, short>>

\* lines 161-169: the body of the loop of update
P_Tail ==
  /\ builder = "paper"
  /\ P_at(word, paper) = "tail"
  /\ paper' = P_Step(word, paper)
  /\ UNCHANGED <<word, builder, new, short>>

\* lines 171-174, 189: update returns and canonize is called
P_EndPoint ==
  /\ builder = "paper"
  /\ P_at(word, paper) = "end_point"
  /\ paper' = P_Step(word, paper)
  /\ UNCHANGED <<word, builder, new, short>>

\* lines 127-132: one iteration of the loop of canonize
P_CanonizeHop ==
  /\ builder = "paper"
  /\ P_at(word, paper) = "hop"
  /\ paper' = P_Step(word, paper)
  /\ UNCHANGED <<word, builder, new, short>>

\* line 133: canonize returns
P_Canonized ==
  /\ builder = "paper"
  /\ P_at(word, paper) = "canonical"
  /\ paper' = P_Step(word, paper)
  /\ UNCHANGED <<word, builder, new, short>>

\* line 190
P_Return ==
  /\ builder = "paper"
  /\ P_at(word, paper) = "return"
  /\ paper' = P_Step(word, paper)
  /\ UNCHANGED <<word, builder, new, short>>

P_Next ==
  \/ P_Update
  \/ P_Tail
  \/ P_EndPoint
  \/ P_CanonizeHop
  \/ P_Canonized
  \/ P_Return

\* ======================================================== specification
\* a failed lookup ends the call of ukkonen() with an exception
Raise ==
  /\ IF builder = "new" THEN N_at(word, new) = "raise"
     ELSE IF builder = "short" THEN S_at(word, short) = "raise"
     ELSE P_at(word, paper) = "raise"
  /\ new' = IF builder = "new" THEN N_Step(word, new) ELSE new
  /\ short' = IF builder = "short" THEN S_Step(word, short) ELSE short
  /\ paper' = IF builder = "paper" THEN P_Step(word, paper) ELSE paper
  /\ UNCHANGED <<word, builder>>

Init ==
  /\ word \in Words
  /\ builder \in {"new", "short", "paper"}
  /\ new = ImplicitState(word)
  /\ short = S_Init
  /\ paper = P_Init

Next == N_Next \/ S_Next \/ P_Next \/ Raise

Spec == Init /\ [][Next]_vars

\* the call of ukkonen() runs on until it returns or raises
FairSpec == Spec /\ WF_vars(Next)

\* ================================================= what a tree spells
Min(a, b) == IF a < b THEN a ELSE b
\* word[a:b]
Slice(w, a, b) == SubSeq(w, a + 1, Min(b, Len(w)))
Prefixes(x) == {SubSeq(x, 1, n) : n \in 1..Len(x)}
Factors(w) ==
  UNION {{SubSeq(w, i, j) : j \in (i - 1)..Len(w)} : i \in 1..(Len(w) + 1)}
\* the longest suffix of x that occurs in x at least twice
LongestRepeatedSuffix(x) ==
  LET n == CHOOSE n \in 0..Len(x) :
             /\ n = 0 \/ \E i \in 1..(Len(x) - n) :
                           SubSeq(x, i, i + n - 1) = SubSeq(x, Len(x) - n + 1, Len(x))
             /\ \A m \in (n + 1)..Len(x) :
                  ~ \E i \in 1..(Len(x) - m) :
                      SubSeq(x, i, i + m - 1) = SubSeq(x, Len(x) - m + 1, Len(x))
  IN  SubSeq(x, Len(x) - n + 1, Len(x))

Symbols(d) == (DOMAIN d) \ {"suffix"}
\* the string of an edge (pos, len, target) of new_ukkonen.py or
\* short_ukkonen.py; a leaf edge is cut at the end of the processed prefix
EdgeString(w, e, end) ==
  IF e[3] = LEAF THEN Slice(w, e[1], Min(e[1] + e[2], end))
  ELSE Slice(w, e[1], e[1] + e[2])

\* the strings read from vertex v on; fuel bounds the depth by the vertex count
RECURSIVE Read(_, _, _, _, _)
Read(w, tree, v, end, fuel) ==
  {<< >>} \cup
  UNION { LET e == tree[v + 1][a]
              str == EdgeString(w, e, end)
          IN  Prefixes(str) \cup
              (IF e[3] # LEAF /\ e[3] >= 0 /\ e[3] < Len(tree) /\ fuel > 0
               THEN {str \o x : x \in Read(w, tree, e[3], end, fuel - 1)}
               ELSE {})
        : a \in Symbols(tree[v + 1]) }
Readable(w, tree, end) == Read(w, tree, 0, end, Len(tree))

\* the pairs <<vertex, string spelled on a path from v to it>>
RECURSIVE Spell(_, _, _, _, _)
Spell(w, tree, v, prefix, fuel) ==
  {<<v, prefix>>} \cup
  UNION { LET e == tree[v + 1][a]
          IN  IF e[3] # LEAF /\ e[3] >= 0 /\ e[3] < Len(tree) /\ fuel > 0
              THEN Spell(w, tree, e[3], prefix \o Slice(w, e[1], e[1] + e[2]),
                         fuel - 1)
              ELSE {}
        : a \in Symbols(tree[v + 1]) }
Spelled(w, tree) == Spell(w, tree, 0, << >>, Len(tree))
\* factor(v), as a set: one string when v is reached by one path
factor(w, tree, v) == {x[2] : x \in {y \in Spelled(w, tree) : y[1] = v}}

\* the same for the transitions (k, p, state) of ukkonen.py, from ROOT
RECURSIVE P_Read(_, _, _, _)
P_Read(w, tree, v, fuel) ==
  {<< >>} \cup
  UNION { LET e == tree[v + 1][a]
              str == Slice(w, e[1], e[2] + 1)
          IN  Prefixes(str) \cup
              (IF e[3] >= 0 /\ e[3] < Len(tree) /\ fuel > 0
               THEN {str \o x : x \in P_Read(w, tree, e[3], fuel - 1)}
               ELSE {})
        : a \in Symbols(tree[v + 1]) }
RECURSIVE P_Spell(_, _, _, _, _)
P_Spell(w, tree, v, prefix, fuel) ==
  {<<v, prefix>>} \cup
  UNION { LET e == tree[v + 1][a]
          IN  IF e[3] >= 0 /\ e[3] < Len(tree) /\ fuel > 0
              THEN P_Spell(w, tree, e[3], prefix \o Slice(w, e[1], e[2] + 1),
                           fuel - 1)
              ELSE {}
        : a \in Symbols(tree[v + 1]) }
\* word(s), as a set
P_word(w, tree, v) ==
  {x[2] : x \in {y \in P_Spell(w, tree, P_ROOT, << >>, Len(tree)) : y[1] = v}}

\* the builders between two phases, or returned
N_PhaseEnd == builder = "new" /\ new.pc \in {"phase", "done"}
S_PhaseEnd == builder = "short" /\ short.pc \in {"phase", "done"}
N_Prefix == SubSeq(word, 1, new.p)
S_Prefix == SubSeq(word, 1, short.p)

\* ================================================================ claims

\* C1: in the class-based builder, after every phase the strings read from
\* the root (leaf edges cut at the end of the processed prefix) are exactly
\* the factors of the processed prefix.
C1_ReadableIsFactors ==
  N_PhaseEnd => Readable(word, new.tree, new.p) = Factors(N_Prefix)
C1_Witness ==
  /\ N_PhaseEnd /\ new.p >= 5 /\ Len(new.tree) >= 3
  /\ Readable(word, new.tree, new.p) = Factors(N_Prefix)

\* the suffix links of the vertices 1.. of a tree of new_ukkonen.py or
\* short_ukkonen.py lead to the vertex that spells the factor without its
\* first symbol
SuffixLinksRight(w, tree) ==
  \A v \in 1..(Len(tree) - 1) :
    /\ "suffix" \in DOMAIN tree[v + 1]
    /\ factor(w, tree, v) # {}
    /\ \A f \in factor(w, tree, v) :
         /\ Len(f) > 0
         /\ factor(w, tree, tree[v + 1]["suffix"]) = {Tail(f)}

\* C2: the tree the short builder returns is the suffix tree of word: the
\* strings read from tree[0] are exactly the factors of word, and every
\* internal node other than the root spells a factor that occurs at least
\* twice, followed by different letters.
C2_ShortTreeIsSuffixTree ==
  (builder = "short" /\ short.pc = "done") =>
    /\ Readable(word, short.tree, Len(word)) = Factors(word)
    /\ \A v \in 1..(Len(short.tree) - 1) :
         /\ factor(word, short.tree, v) # {}
         /\ \A f \in factor(word, short.tree, v) :
              \E i, j \in 1..(Len(word) - Len(f)) :
                /\ SubSeq(word, i, i + Len(f) - 1) = f
                /\ SubSeq(word, j, j + Len(f) - 1) = f
                /\ word[i + Len(f)] # word[j + Len(f)]

\* C3 as stated: in the tree the paper-style builder returns, every
\* transition tree[s][t] = (k, p, ss), those of BOTTOM included, has
\* word[k] = t and word(ss) = word(s) + word[k:p+1], and the strings read
\* from ROOT are exactly the factors of word.
P_TransitionRight(s, t) ==
  LET e == paper.tree[s + 1][t]
  IN  /\ e[1] < Len(word) /\ At(word, e[1]) = t
      /\ P_word(word, paper.tree, s) # {}
      /\ \A f \in P_word(word, paper.tree, s) :
           P_word(word, paper.tree, e[3]) = {f \o Slice(word, e[1], e[2] + 1)}
C4_ShortSuffixLinks ==
  (builder = "short" /\ short.pc = "done") =>
    SuffixLinksRight(word, short.tree)

\* C5: in the class-based builder, at the end of every phase every vertex
\* other than the root has a suffix link, and it leads to the vertex whose
\* factor is the vertex's factor without its first symbol.
C5_NewSuffixLinks ==
  N_PhaseEnd => SuffixLinksRight(word, new.tree)
C5_Witness ==
  /\ N_PhaseEnd /\ Len(new.tree) >= 4
  /\ \E v \in 1..(Len(new.tree) - 1) : new.tree[v + 1]["suffix"] # root

\* C6: after every phase, in both builders, the active point denotes the
\* longest suffix of the processed prefix that occurs in it at least twice.
C6_ActivePointIsLongestRepeatedSuffix ==
  /\ N_PhaseEnd =>
       /\ factor(word, new.tree, new.label) # {}
       /\ \A f \in factor(word, new.tree, new.label) :
            f \o Slice(word, new.pos, new.pos + new.len)
              = LongestRepeatedSuffix(N_Prefix)
  /\ S_PhaseEnd =>
       /\ factor(word, short.tree, short.node) # {}
       /\ \A f \in factor(word, short.tree, short.node) :
            f \o Slice(word, short.position, short.position + short.length)
              = LongestRepeatedSuffix(S_Prefix)

abcacdae == <<"a","b","c","a","c","d","a","e">>
abcabxabcd == <<"a","b","c","a","b","x","a","b","c","d">>
S_leaf(position) == <<position, INFINITY, S_LEAF>>
C8_tree_abcacdae ==
  << [a |-> <<0, 1, 1>>, suffix |-> 0, b |-> S_leaf(1), c |-> <<2, 1, 2>>,
      d |-> S_leaf(5), e |-> S_leaf(7)],
     [c |-> S_leaf(4), b |-> S_leaf(1), suffix |-> 0, e |-> S_leaf(7)],
     [d |-> S_leaf(5), a |-> S_leaf(3), suffix |-> 0] >>
C8_tree_abcabxabcd ==
  << [a |-> <<0, 2, 1>>, suffix |-> 0, b |-> <<1, 1, 2>>, c |-> <<2, 1, 5>>,
      x |-> S_leaf(5), d |-> S_leaf(9)],
     [x |-> S_leaf(5), c |-> <<2, 1, 3>>, suffix |-> 2],
     [x |-> S_leaf(5), c |-> <<2, 1, 4>>, suffix |-> 0],
     [d |-> S_leaf(9), a |-> S_leaf(3), suffix |-> 4],
     [d |-> S_leaf(9), a |-> S_leaf(3), suffix |-> 5],
     [d |-> S_leaf(9), a |-> S_leaf(3), suffix |-> 0] >>
C8_WorkedExamples ==
  (builder = "short" /\ short.pc = "done") =>
    /\ word = abcacdae =>
         /\ <<short.node, short.position, short.length>> = <<0, 0, 0>>
         /\ Len(short.tree) = 3
         /\ short.tree = C8_tree_abcacdae
    /\ word = abcabxabcd =>
         /\ <<short.node, short.position, short.length>> = <<0, 0, 0>>
         /\ Len(short.tree) = 6
         /\ short.tree = C8_tree_abcabxabcd
C8_Witness ==
  /\ builder = "short" /\ short.pc = "done" /\ word = abcabxabcd
  /\ short.tree[4]["suffix"] = 4

\* C9: the state after the first p phases is the state the builder returns
\* for the word word[:p]: the same vertices, the same symbol edges once the
\* leaf edges are cut at p, the same suffix links of the vertices other than
\* the root, and the same factor denoted by the active point.
RECURSIVE N_Run(_, _)
N_Run(w, s) ==
  IF s.pc \in {"done", "raised"} THEN s ELSE N_Run(w, N_Step(w, s))
RECURSIVE S_Run(_, _)
S_Run(w, t) ==
  IF t.pc \in {"done", "raised"} THEN t ELSE S_Run(w, S_Step(w, t))
\* what C9 compares
View(w, tree, end, vertex, pos, len) ==
  [ vertices |-> Len(tree),
    edges |-> [v \in 1..Len(tree) |->
                 [a \in Symbols(tree[v]) |->
                    IF tree[v][a][3] = LEAF
                    THEN <<tree[v][a][1],
                           Min(tree[v][a][2], end - tree[v][a][1]), LEAF>>
                    ELSE tree[v][a]]],
    suffix |-> [v \in 2..Len(tree) |->
                  IF "suffix" \in DOMAIN tree[v] THEN {tree[v]["suffix"]}
                  ELSE {}],
    active |-> {f \o Slice(w, pos, pos + len) : f \in factor(w, tree, vertex)} ]
C9_Online ==
  /\ N_PhaseEnd =>
       LET r == N_Run(N_Prefix, ImplicitState(N_Prefix))
       IN  View(word, new.tree, new.p, new.label, new.pos, new.len)
             = View(N_Prefix, r.tree, new.p, r.label, r.pos, r.len)
  /\ S_PhaseEnd =>
       LET r == S_Run(S_Prefix, S_Init)
       IN  View(word, short.tree, short.p,
                short.node, short.position, short.length)
             = View(S_Prefix, r.tree, short.p, r.node, r.position, r.length)
C9_Witness ==
  \/ /\ builder = "new" /\ new.pc = "phase"
     /\ new.p >= 4 /\ new.p < Len(word) /\ Len(new.tree) >= 3
  \/ /\ builder = "short" /\ short.pc = "phase"
     /\ short.p >= 4 /\ short.p < Len(word) /\ Len(short.tree) >= 3

\* C10: in the class-based and the short builder no step removes a vertex,
\* changes the factor an existing vertex spells, or removes a symbol edge or
\* changes its start; a step that adds a vertex shortens one edge to end at
\* the new vertex, whose edge to the old target carries the remainder, and
\* leaves every other edge as it was.
Grows(w, old, now) ==
  /\ Len(now) >= Len(old)
  /\ \A v \in 0..(Len(old) - 1) :
       /\ factor(w, now, v) = factor(w, old, v)
       /\ \A a \in Symbols(old[v + 1]) :
            /\ a \in Symbols(now[v + 1])
            /\ now[v + 1][a][1] = old[v + 1][a][1]
  /\ Len(now) > Len(old) =>
       /\ Len(now) = Len(old) + 1
       /\ \E v \in 0..(Len(old) - 1) : \E a \in Symbols(old[v + 1]) :
            LET e == old[v + 1][a]
                n == now[v + 1][a]
            IN  /\ n[3] = Len(old) /\ n[2] > 0 /\ n[2] < e[2]
                /\ \E b \in Symbols(now[Len(old) + 1]) :
                     now[Len(old) + 1][b]
                       = <<e[1] + n[2], Minus(e[2], n[2]), e[3]>>
                /\ \A u \in 0..(Len(old) - 1) : \A c \in Symbols(old[u + 1]) :
                     (u # v \/ c # a) => now[u + 1][c] = old[u + 1][c]
C10_MonotoneGrowth ==
  [][ /\ builder = "new" => Grows(word, new.tree, new'.tree)
      /\ builder = "short" => Grows(word, short.tree, short'.tree) ]_vars
C10_Witness ==
  \/ builder = "new" /\ new.pc = "suffix" /\ Len(new.tree) >= 4
  \/ builder = "short" /\ short.pc = "canon" /\ Len(short.tree) >= 4

\* C11 as stated: in the class-based and the short builder, at the end of
\* every phase and in the returned tree, the root has a suffix link and it
\* leads to the root.
C11_RootSuffixLink ==
  /\ (N_PhaseEnd /\ (new.p >= 1 \/ new.pc = "done")) =>
       /\ "suffix" \in DOMAIN new.tree[root + 1]
       /\ new.tree[root + 1]["suffix"] = root
  /\ (S_PhaseEnd /\ (short.p >= 1 \/ short.pc = "done")) =>
       /\ SUFFIX \in DOMAIN short.tree[ROOT + 1]
       /\ short.tree[ROOT + 1][SUFFIX] = ROOT

\* C11 amended: the tree the short builder returns has the suffix link of
\* the root leading to the root; the class-based builder never gives the
\* root a suffix link.
C11_ReturnedRootSuffixLink ==
  /\ (builder = "short" /\ short.pc = "done") =>
       /\ SUFFIX \in DOMAIN short.tree[ROOT + 1]
       /\ short.tree[ROOT + 1][SUFFIX] = ROOT
  /\ builder = "new" => "suffix" \notin DOMAIN new.tree[root + 1]
C11_Witness ==
  \/ /\ builder = "short" /\ short.pc = "done" /\ Len(short.tree) >= 3
     /\ short.tree[ROOT + 1][SUFFIX] = ROOT
  \/ /\ builder = "new" /\ new.pc = "done" /\ Len(new.tree) >= 3
     /\ "suffix" \notin DOMAIN new.tree[root + 1]

\* C13: the empty word gives a tree of the root alone, without symbol edges,
\* and the active point at the root with len 0; a one-symbol word gives the
\* root alone with exactly one edge, a leaf edge keyed by that symbol that
\* starts at 0.
C13_BoundaryInputs ==
  /\ (builder = "new" /\ new.pc = "done") =>
       /\ Len(word) = 0 =>
            /\ Len(new.tree) = 1 /\ Symbols(new.tree[1]) = {}
            /\ <<new.label, new.pos, new.len>> = <<root, 0, 0>>
       /\ Len(word) = 1 =>
            /\ Len(new.tree) = 1 /\ Symbols(new.tree[1]) = {word[1]}
            /\ new.tree[1][word[1]] = <<0, 1, LEAF>>
  /\ (builder = "short" /\ short.pc = "done") =>
       /\ Len(word) = 0 =>
            /\ Len(short.tree) = 1 /\ Symbols(short.tree[1]) = {}
            /\ <<short.node, short.position, short.length>> = <<ROOT, 0, 0>>
       /\ Len(word) = 1 =>
            /\ Len(short.tree) = 1 /\ Symbols(short.tree[1]) = {word[1]}
            /\ short.tree[1][word[1]] = <<0, INFINITY, S_LEAF>>
C13_Witness ==
  /\ builder = "new" /\ new.pc = "done" /\ Len(word) = 1
  /\ new.tree = << [x \in {word[1]} |-> <<0, 1, LEAF>>] >>

\* C12: a word with a symbol outside the 26 lower-case letters is not an
\* error: each of the three builders completes all phases without a failed
\* lookup and returns the suffix tree of the word.
C12_AnyAlphabet ==
  (\E i \in DOMAIN word : word[i] \notin ascii_lowercase) =>
    /\ builder = "new" =>
         /\ new.pc # "raised"
         /\ new.pc = "done" =>
              Readable(word, new.tree, Len(word)) = Factors(word)
    /\ builder = "short" =>
         /\ short.pc # "raised"
         /\ short.pc = "done" =>
              Readable(word, short.tree, Len(word)) = Factors(word)
    /\ builder = "paper" =>
         /\ paper.pc # "raised"
         /\ paper.pc = "done" =>
              P_Read(word, paper.tree, P_ROOT, Len(paper.tree)) = Factors(word)

\* one phase of a builder, from the state between two phases
RECURSIVE N_RunPhase(_, _)
N_RunPhase(w, s) ==
  IF s.pc \in {"phase", "done", "raised"} THEN s
  ELSE N_RunPhase(w, N_Step(w, s))
N_OnePhase(w, s) == N_RunPhase(w, N_Step(w, s))
RECURSIVE S_RunPhase(_, _)
S_RunPhase(w, t) ==
  IF t.pc \in {"phase", "done", "raised"} THEN t
  ELSE S_RunPhase(w, S_Step(w, t))
S_OnePhase(w, t) == S_RunPhase(w, S_Step(w, t))
\* the string the active point denotes, as a set
ActiveString(w, tree, vertex, pos, len) ==
  {f \o Slice(w, pos, pos + len) : f \in factor(w, tree, vertex)}
\* the canonical form of section 3
IsCanonical(w, tree, vertex, pos, len) ==
  \/ len = 0
  \/ /\ len > 0 /\ is_vertex(tree, vertex)
     /\ At(w, pos) \in Symbols(tree[vertex + 1])
     /\ len < tree[vertex + 1][At(w, pos)][2]
\* the active point of the short builder has a transition on word[p]
S_has_transition(w, t) ==
  IF t.length > 0 THEN At(w, t.p) = At(w, t.position + t.length)
  ELSE At(w, t.p) \in Symbols(t.tree[t.node + 1])
\* tree now has a leaf edge keyed by a that starts at p and old has not
LeafAdded(old, now, a, p, leaf) ==
  \E v \in 1..Len(now) :
    /\ a \in Symbols(now[v]) /\ now[v][a][1] = p /\ now[v][a][3] = leaf
    /\ v > Len(old) \/ a \notin Symbols(old[v])
\* the show-stopper phase of a builder: r is the state after the phase of s
ShowStopperFrame(w, p, old, oldv, oldpos, oldlen, now, v, pos, len) ==
  /\ ActiveString(w, now, v, pos, len)
       = {x \o <<At(w, p)>> : x \in ActiveString(w, old, oldv, oldpos, oldlen)}
  /\ ActiveString(w, now, v, pos, len) # {}
  /\ IsCanonical(w, now, v, pos, len)

\* C14 as stated: a phase that starts with a transition on word[p] at the
\* active point leaves the graph as it was (no vertex, no symbol edge, no
\* suffix link of any vertex, the root included) and advances the active
\* point by word[p], canonical; every other phase adds a leaf edge keyed by
\* word[p] that starts at p.
C14_ShowStopperFrame ==
  /\ (builder = "new" /\ new.pc = "phase" /\ new.p < Len(word)) =>
       LET r == N_OnePhase(word, new)
       IN  IF has_transition(word, new, new.p)
           THEN /\ r.tree = new.tree
                /\ ShowStopperFrame(word, new.p,
                                    new.tree, new.label, new.pos, new.len,
                                    r.tree, r.label, r.pos, r.len)
           ELSE LeafAdded(new.tree, r.tree, At(word, new.p), new.p, LEAF)
  /\ (builder = "short" /\ short.pc = "phase" /\ short.p < Len(word)) =>
       LET r == S_OnePhase(word, short)
       IN  IF S_has_transition(word, short)
           THEN /\ r.tree = short.tree
                /\ ShowStopperFrame(word, short.p, short.tree, short.node,
                                    short.position, short.length,
                                    r.tree, r.node, r.position, r.length)
           ELSE LeafAdded(short.tree, r.tree, At(word, short.p), short.p,
                          S_LEAF)

\* the tree without the suffix link of the root
WithoutRootLink(tree) ==
  [v \in 1..Len(tree) |->
     IF v = 1 THEN [a \in Symbols(tree[v]) |-> tree[v][a]] ELSE tree[v]]

\* C14 amended: the same, but in the short builder such a phase writes the
\* suffix link of the root when the active point is explicit; all the rest
\* of the graph is left as it was.
C14_ShowStopperFrameButRootLink ==
  /\ (builder = "new" /\ new.pc = "phase" /\ new.p < Len(word)) =>
       LET r == N_OnePhase(word, new)
       IN  IF has_transition(word, new, new.p)
           THEN /\ r.tree = new.tree
                /\ ShowStopperFrame(word, new.p,
                                    new.tree, new.label, new.pos, new.len,
                                    r.tree, r.label, r.pos, r.len)
           ELSE LeafAdded(new.tree, r.tree, At(word, new.p), new.p, LEAF)
  /\ (builder = "short" /\ short.pc = "phase" /\ short.p < Len(word)) =>
       LET r == S_OnePhase(word, short)
       IN  IF S_has_transition(word, short)
           THEN /\ WithoutRootLink(r.tree) = WithoutRootLink(short.tree)
                /\ short.length > 0 => r.tree = short.tree
                /\ ShowStopperFrame(word, short.p, short.tree, short.node,
                                    short.position, short.length,
                                    r.tree, r.node, r.position, r.length)
           ELSE LeafAdded(short.tree, r.tree, At(word, short.p), short.p,
                          S_LEAF)
C14_Witness ==
  \/ /\ builder = "new" /\ new.pc = "phase" /\ new.p < Len(word)
     /\ has_transition(word, new, new.p) /\ new.len >= 1
     /\ Len(new.tree) >= 3 /\ N_OnePhase(word, new).len = 0
  \/ /\ builder = "short" /\ short.pc = "phase" /\ short.p < Len(word)
     /\ S_has_transition(word, short) /\ short.length = 0
     /\ S_OnePhase(word, short).tree # short.tree

\* the indices at which the next step of a builder reads word
N_word_reads(w, s) ==
  LET active == IF is_explicit(s) THEN {}
                ELSE LET k == get_edge_content(s.tree, s.label,
                                               At(w, s.pos))[1]
                     IN  {s.pos, k, k + s.len}
  IN  CASE s.pc = "phase" /\ s.p < Len(w) -> {s.p} \cup active
        [] s.pc = "while" -> {s.p} \cup active
        [] s.pc = "canon" -> IF is_explicit(s) THEN {} ELSE {s.pos}
        [] OTHER -> {}
S_word_reads(w, t) ==
  CASE t.pc = "phase" /\ t.p < Len(w) -> {t.p}
    [] t.pc = "loop1" /\ t.length > 0 ->
         {t.position, t.position + t.length}
           \cup (IF S_first_loop(w, t) THEN {S_split_move(w, t).position}
                 ELSE {})
    [] t.pc = "canon" ->
         IF t.length_node_child <= t.length
         THEN {t.position + t.length_node_child}
         ELSE IF t.length > 0 THEN {t.position} ELSE {}
    [] OTHER -> {}

\* C15: in every state of the class-based and of the short builder no read
\* fails (each edge read and each read of a suffix link hits a key present
\* at an existing vertex), the active vertex is a vertex and not the leaf
\* marker, move_to_suffix is not called at the root, len is not negative, and
\* every index at which word is read lies in 0..len(word)-1.
C15_NoFault ==
  /\ builder = "new" =>
       /\ new.pc # "raised"
       /\ ~ N_raises(word, new)
       /\ is_vertex(new.tree, new.label)
       /\ new.pc = "suffix" => ~ is_root(new)
       /\ new.len >= 0
       /\ N_word_reads(word, new) \subseteq 0..(Len(word) - 1)
  /\ builder = "short" =>
       /\ short.pc # "raised"
       /\ ~ S_raises(word, short)
       /\ is_vertex(short.tree, short.node)
       /\ short.length >= 0
       /\ S_word_reads(word, short) \subseteq 0..(Len(word) - 1)

\* C16: every hop of a canonization strictly decreases len, and the build
\* of the class-based and of the short builder ends: it returns, after
\* exactly len(word) phases.
C16_Termination ==
  /\ [][ /\ (builder = "new" /\ N_at(word, new) = "hop") =>
              new'.len < new.len
         /\ (builder = "short" /\ S_at(word, short) = "hop") =>
              short'.length < short.length ]_vars
  /\ <>( /\ builder = "new" => new.pc = "done" /\ new.p = Len(word)
         /\ builder = "short" => short.pc = "done" /\ short.p = Len(word) )

\* C17: in the class-based builder, when a phase that has attached a leaf
\* finds the transition after move_to_suffix, the active point is explicit
\* (len = 0 and pos = 0); in the short builder the first while loop does not
\* exit with length > 0 after it has created a node in the phase.
C17_ShowStopperAtVertex ==
  /\ (builder = "new" /\ N_at(word, new) = "end_point") =>
       new.len = 0 /\ new.pos = 0
  /\ (builder = "short" /\ short.pc = "loop1"
        /\ ~ S_raises(word, short) /\ ~ S_first_loop(word, short)
        /\ short.previous_node # ROOT) =>
       short.length = 0

====
